---------------------------- MODULE Spec2Model ----------------------------
(***************************************************************************)
(* A model of the task runtime of crates/fast/src/rt/mod.rs:               *)
(*   - Notify, the wake/park cell (register / notify), at the granularity  *)
(*     of its atomic operations;                                           *)
(*   - Work::execute, Kind::waker and Kind::schedule, with the worker      *)
(*     run-loop that calls them;                                           *)
(*   - the Join and Select combinators;                                    *)
(*   - block_on, the blocking driver.                                      *)
(* Each part has its own specification (SpecNotify, SpecWork, SpecJoin,    *)
(* SpecSelect, SpecBlock); the variables of the other parts stay at their  *)
(* initial values.                                                         *)
(***************************************************************************)
EXTENDS Integers, Sequences, FiniteSets

(***************************************************************************)
(* Bounds of the model.                                                    *)
(***************************************************************************)
\* notify() calls made on the Notify under test
MaxNotify == 3
\* register() calls made on the Notify under test
MaxRegister == 2
\* polls a sub-future of Join needs before it is Ready, at most
MaxPolls == 3
\* workers (threads) of the pool
NumWorkers == 2
\* tasks submitted to the pool
MaxTasks == 1
\* polls the future of a Fut task needs before it is Ready, at most
MaxFutPolls == 3

(***************************************************************************)
(* Notify: constants and the atomic operations of register and notify.     *)
(***************************************************************************)
EMPTY == 0
WAITING == 1
NOTIFIED == 2
\* the null task pointer of AtomicPtr::default()
NULL == 0

\* Notify::new(key)
NotifyNew(key) == [key |-> key, task |-> NULL, state |-> EMPTY]

\* a plausible slip: the task is boxed but the slot is never written
RegisterStore_Dropped(n, ptr) == n

\* register: self.task.store(task_ptr, Release)
RegisterStore(n, ptr) == [n EXCEPT !.task = ptr]

\* AtomicU8::compare_exchange(current, new): the value after the operation
CompareExchange(word, current, new) == IF word = current THEN new ELSE word

\* a plausible slip: register reports success unless a task is already parked
RegisterOk_NotWaiting(n) == n.state # WAITING

\* register: compare_exchange(EMPTY, WAITING).is_ok()
RegisterOk(n) == n.state = EMPTY

\* a plausible slip: a plain store of WAITING in place of the compare-exchange
RegisterCas_Store(n) == [n EXCEPT !.state = WAITING]

\* register: the cell after compare_exchange(EMPTY, WAITING)
RegisterCas(n) == [n EXCEPT !.state = CompareExchange(n.state, EMPTY, WAITING)]

\* a plausible slip: only a WAITING cell is moved to NOTIFIED
NotifySwap_OnlyWaiting(n) ==
    [n EXCEPT !.state = CompareExchange(n.state, WAITING, NOTIFIED)]

\* notify: the cell after self.state.swap(NOTIFIED)
NotifySwap(n) == [n EXCEPT !.state = NOTIFIED]

\* a plausible slip: notify proceeds whenever a task may have been stored
NotifyTakes_NotNotified(prior) == prior # NOTIFIED

\* a plausible slip: notify proceeds unless the cell was EMPTY
NotifyTakes_NotEmpty(prior) == prior # EMPTY

\* notify: "if swap(..) == WAITING", decided on the prior value of the state
NotifyTakes(prior) == prior = WAITING

\* notify: self.task.load(Acquire)
NotifyLoad(n) == n.task

\* notify: "if !task_ptr.is_null()": the schedule calls, with ptr handed over
NotifyHandOff(sched, ptr) == IF ptr # NULL THEN Append(sched, ptr) ELSE sched

(***************************************************************************)
(* The state.                                                              *)
(***************************************************************************)
VARIABLES
    \* --- one Notify driven by register() and notify() callers ---
    cell,       \* the Notify: [key, task, state]
    regPc,      \* register call r: "idle", "cas" (slot stored), "done"
    regRet,     \* register call r: "none" until it returns, then "true"/"false"
    regFound,   \* register call r: the state its compare-exchange found (-1 before)
    regQuiet,   \* register call r began after notify calls had all finished
    notPc,      \* notify call t: "idle", "load" (swapped, saw WAITING), "done"
    notPrior,   \* notify call t: the state its swap returned (-1 before)
    notRead,    \* notify call t: whether it loaded the task slot
    scheduled,  \* the tasks passed to Kind::schedule, in order
    \* --- one Join over two sub-futures ---
    join,       \* the Join: [first_done, second_done, first_result, second_result]
    futA,       \* the first sub-future: [need, val, polls]
    futB,       \* the second sub-future: [need, val, polls]
    outer,      \* the number of outer polls of the Join made so far
    out,        \* what the last outer poll returned: [ready, value]
    order,      \* the sides the last outer poll polled, in order
    panicked,   \* an outer poll ended in unwrap() on None
    \* --- one Select over the two sub-futures ---
    select,     \* the Select: [polled_first, polled_second]
    \* --- the block_on calls in progress ---
    blk,        \* call site c: [fut, pc, ret, woke]
    \* --- the workers, their tasks and the Notify of each suspension ---
    heap,       \* key k: the Task [key, kind, act] submitted under that key
    futs,       \* key k: the future of the task: [need, val, polls]
    info,       \* key k: [origin, calls, execs, resched]
    workers,    \* worker w: [local, remote, waker]
    thread,     \* worker w's run-loop: [pc, ret]
    notifies,   \* key k: the Notify objects minted by Kind::waker(k), in order
    handles,    \* per Notify: [armed, resched] of its wake handle
    staleWakes  \* parity of the wakes made through the handle of an earlier
                \* suspension while the task was parked in its newest Notify

notifyVars == <<cell, regPc, regRet, regFound, regQuiet, notPc, notPrior, notRead, scheduled>>

joinVars == <<join, futA, futB, outer, out, order, panicked>>

selectVars == <<select>>

blockVars == <<blk>>

workVars == <<heap, futs, info, workers, thread, notifies, handles, staleWakes>>

vars == <<notifyVars, joinVars, selectVars, blockVars, workVars>>

\* what the actions of one part leave alone
notNotifyVars == <<joinVars, selectVars, blockVars, workVars>>
notJoinVars == <<notifyVars, selectVars, blockVars, workVars>>
notWorkVars == <<notifyVars, joinVars, selectVars, blockVars>>
notSelectVars == <<notifyVars, blockVars, workVars, join, panicked>>
notBlockVars ==
    <<cell, regPc, regRet, regFound, regQuiet, notPc, notPrior, notRead,
      joinVars, selectVars, workVars>>

Registers == 1..MaxRegister
Notifiers == 1..MaxNotify

\* register call r carries the boxed task r
TaskOf(r) == r

(***************************************************************************)
(* The Notify under test.                                                  *)
(***************************************************************************)
NotifyFresh ==
    /\ cell = NotifyNew(1)
    /\ regPc = [r \in Registers |-> "idle"]
    /\ regRet = [r \in Registers |-> "none"]
    /\ regFound = [r \in Registers |-> -1]
    /\ regQuiet = [r \in Registers |-> FALSE]
    /\ notPc = [t \in Notifiers |-> "idle"]
    /\ notPrior = [t \in Notifiers |-> -1]
    /\ notRead = [t \in Notifiers |-> FALSE]
    /\ scheduled = <<>>

\* some notify call has returned and none is in progress
NotifiesFinished ==
    /\ \E t \in Notifiers : notPc[t] = "done"
    /\ \A t \in Notifiers : notPc[t] # "load"

\* register(task), first half: Box::into_raw and the store of the slot
RegisterBegin(r) ==
    /\ regPc[r] = "idle"
    /\ cell' = RegisterStore(cell, TaskOf(r))
    /\ regPc' = [regPc EXCEPT ![r] = "cas"]
    /\ regQuiet' = [regQuiet EXCEPT ![r] =
                       NotifiesFinished /\ \A q \in Registers : regPc[q] = "idle"]
    /\ UNCHANGED <<regRet, regFound, notPc, notPrior, notRead, scheduled, notNotifyVars>>

\* register(task), second half: the compare-exchange and the return
RegisterEnd(r) ==
    /\ regPc[r] = "cas"
    /\ cell' = RegisterCas(cell)
    /\ regRet' = [regRet EXCEPT ![r] = IF RegisterOk(cell) THEN "true" ELSE "false"]
    /\ regFound' = [regFound EXCEPT ![r] = cell.state]
    /\ regPc' = [regPc EXCEPT ![r] = "done"]
    /\ UNCHANGED <<regQuiet, notPc, notPrior, notRead, scheduled, notNotifyVars>>

\* notify(), first half: the swap; it returns at once unless it saw WAITING
NotifyBegin(t) ==
    /\ notPc[t] = "idle"
    /\ cell' = NotifySwap(cell)
    /\ notPrior' = [notPrior EXCEPT ![t] = cell.state]
    /\ notPc' = [notPc EXCEPT ![t] = IF NotifyTakes(cell.state) THEN "load" ELSE "done"]
    /\ UNCHANGED <<regPc, regRet, regFound, regQuiet, notRead, scheduled, notNotifyVars>>

\* notify(), second half: the load of the slot and block_on(K::schedule(task))
NotifyEnd(t) ==
    /\ notPc[t] = "load"
    /\ notRead' = [notRead EXCEPT ![t] = TRUE]
    /\ scheduled' = NotifyHandOff(scheduled, NotifyLoad(cell))
    /\ notPc' = [notPc EXCEPT ![t] = "done"]
    /\ UNCHANGED <<cell, regPc, regRet, regFound, regQuiet, notPrior, notNotifyVars>>

NextNotify ==
    \/ \E r \in Registers : RegisterBegin(r)
    \/ \E r \in Registers : RegisterEnd(r)
    \/ \E t \in Notifiers : NotifyBegin(t)
    \/ \E t \in Notifiers : NotifyEnd(t)

(***************************************************************************)
(* Join: two boxed sub-futures, polled left then right until both are      *)
(* done.  A sub-future is Ready on its need-th poll and yields val.        *)
(***************************************************************************)
\* Option::None, and the results the sub-futures may yield
None == "None"
Values == {"1", "a"}

Pending == [ready |-> FALSE, value |-> <<>>]
Ready(v) == [ready |-> TRUE, value |-> v]

\* a sub-future after one more poll of it
FutPolled(f) == [f EXCEPT !.polls = @ + 1]

\* what that poll returned; a future with need = 0 is never Ready
FutPoll(f) == IF f.need > 0 /\ f.polls >= f.need THEN Ready(f.val) ELSE Pending

\* Join::new(first, second)
JoinNew ==
    [first_done |-> FALSE, second_done |-> FALSE,
     first_result |-> None, second_result |-> None]

\* a plausible slip: the second side is tried before the first
JoinSides_SecondFirst(j) ==
    (IF ~j.second_done THEN <<"second">> ELSE <<>>)
        \o (IF ~j.first_done THEN <<"first">> ELSE <<>>)

\* poll: "if !self.first_done {..}" and then "if !self.second_done {..}":
\* the sides an outer poll polls, in order
JoinSides(j) ==
    (IF ~j.first_done THEN <<"first">> ELSE <<>>)
        \o (IF ~j.second_done THEN <<"second">> ELSE <<>>)

\* a plausible slip: the result is cached but the side is not marked done
JoinAfterFirst_NotMarked(j, poll) ==
    IF poll.ready THEN [j EXCEPT !.first_result = poll.value] ELSE j

\* poll: "if let Poll::Ready(result) = self.first.as_mut().poll(cx)"
JoinAfterFirst(j, poll) ==
    IF poll.ready
    THEN [j EXCEPT !.first_done = TRUE, !.first_result = poll.value]
    ELSE j

\* poll: "if let Poll::Ready(result) = self.second.as_mut().poll(cx)"
JoinAfterSecond(j, poll) ==
    IF poll.ready
    THEN [j EXCEPT !.second_done = TRUE, !.second_result = poll.value]
    ELSE j

\* a plausible slip: || for &&
JoinBothDone_Either(j) == j.first_done \/ j.second_done

\* poll: "if self.first_done && self.second_done"
JoinBothDone(j) == j.first_done /\ j.second_done

\* a plausible slip: the pair is built the wrong way round
JoinPair_Swapped(j) == <<j.second_result, j.first_result>>

\* poll: (first_result.take().unwrap(), second_result.take().unwrap())
JoinPair(j) == <<j.first_result, j.second_result>>

\* poll: unwrap() panics on a result that is None
JoinUnwrapPanics(j) == j.first_result = None \/ j.second_result = None

\* poll: the two take() calls
JoinTaken(j) == [j EXCEPT !.first_result = None, !.second_result = None]

JoinAt(a, va, b, vb) ==
    /\ join = JoinNew
    /\ futA = [need |-> a, val |-> va, polls |-> 0]
    /\ futB = [need |-> b, val |-> vb, polls |-> 0]
    /\ outer = 0
    /\ out = Pending
    /\ order = <<>>
    /\ panicked = FALSE
    /\ select = [polled_first |-> FALSE, polled_second |-> FALSE]

JoinFresh ==
    \E a, b \in 1..MaxPolls : \E va, vb \in Values : JoinAt(a, va, b, vb)

\* one outer poll: <Join as Future>::poll
JoinPoll ==
    /\ ~panicked
    /\ LET sides   == JoinSides(join)
           pollsA  == \E i \in DOMAIN sides : sides[i] = "first"
           pollsB  == \E i \in DOMAIN sides : sides[i] = "second"
           a1      == IF pollsA THEN FutPolled(futA) ELSE futA
           j1      == IF pollsA THEN JoinAfterFirst(join, FutPoll(a1)) ELSE join
           b1      == IF pollsB THEN FutPolled(futB) ELSE futB
           j2      == IF pollsB THEN JoinAfterSecond(j1, FutPoll(b1)) ELSE j1
       IN  /\ futA' = a1
           /\ futB' = b1
           /\ order' = sides
           /\ outer' = outer + 1
           /\ IF JoinBothDone(j2)
              THEN IF JoinUnwrapPanics(j2)
                   THEN /\ panicked' = TRUE
                        /\ join' = JoinTaken(j2)
                        /\ out' = out
                   ELSE /\ panicked' = FALSE
                        /\ join' = JoinTaken(j2)
                        /\ out' = Ready(JoinPair(j2))
              ELSE /\ panicked' = FALSE
                   /\ join' = j2
                   /\ out' = Pending
    /\ UNCHANGED notJoinVars

NextJoin == JoinPoll

(***************************************************************************)
(* Select: two boxed sub-futures, tried left then right; the first Ready   *)
(* wins.  A Select is polled until it returns Ready, and not after.  A     *)
(* side may be a future that is never Ready (need = 0).                    *)
(***************************************************************************)
\* Select::new(first, second)
SelectNew == [polled_first |-> FALSE, polled_second |-> FALSE]

\* a plausible slip: the first side's result tagged as the second's
SelectFirst_TaggedSecond(v) == <<"Second", v>>

\* Either::First(result) and Either::Second(result)
SelectFirst(v) == <<"First", v>>
SelectSecond(v) == <<"Second", v>>

\* poll: "Poll::Pending => self.polled_first = true" / "self.polled_second = true"
SelectFirstPending(s) == [s EXCEPT !.polled_first = TRUE]
SelectSecondPending(s) == [s EXCEPT !.polled_second = TRUE]

\* a plausible slip: the flags are kept, so only a side not yet tried is polled
SelectReset_Kept(s) == s

\* poll: "self.polled_first = false; self.polled_second = false"
SelectReset(s) == [s EXCEPT !.polled_first = FALSE, !.polled_second = FALSE]

SelectFresh ==
    /\ select = SelectNew
    /\ \E a, b \in 0..MaxPolls : \E va, vb \in Values :
           /\ futA = [need |-> a, val |-> va, polls |-> 0]
           /\ futB = [need |-> b, val |-> vb, polls |-> 0]
    /\ join = JoinNew
    /\ outer = 0
    /\ out = Pending
    /\ order = <<>>
    /\ panicked = FALSE

\* one outer poll: <Select as Future>::poll
SelectPoll ==
    /\ ~out.ready
    /\ outer <= MaxPolls
    /\ outer' = outer + 1
    /\ LET tryA == ~select.polled_first
           a1   == IF tryA THEN FutPolled(futA) ELSE futA
           pa   == FutPoll(a1)
       IN  /\ futA' = a1
           /\ IF tryA /\ pa.ready
              THEN /\ out' = Ready(SelectFirst(pa.value))
                   /\ select' = select
                   /\ futB' = futB
                   /\ order' = <<"first">>
              ELSE LET s1   == IF tryA THEN SelectFirstPending(select) ELSE select
                       tryB == ~s1.polled_second
                       b1   == IF tryB THEN FutPolled(futB) ELSE futB
                       pb   == FutPoll(b1)
                       tried == (IF tryA THEN <<"first">> ELSE <<>>)
                                    \o (IF tryB THEN <<"second">> ELSE <<>>)
                   IN  /\ futB' = b1
                       /\ order' = tried
                       /\ IF tryB /\ pb.ready
                          THEN /\ out' = Ready(SelectSecond(pb.value))
                               /\ select' = s1
                          ELSE /\ out' = Pending
                               /\ select' = SelectReset(
                                      IF tryB THEN SelectSecondPending(s1) ELSE s1)
    /\ UNCHANGED notSelectVars

NextSelect == SelectPoll

(***************************************************************************)
(* block_on: the spin-poll loop over a future, against the BLOCK_ON waker. *)
(* The future polled may call wake on the waker of its context.            *)
(***************************************************************************)
\* the call sites of block_on: Notify::notify and Work::execute
Blockers == {"notify", "execute"}

\* BLOCK_ON_VTABLE wake / wake_by_ref, "|_| {}": the schedule calls afterwards
BlockOnWake(sched) == sched

\* Block::new(future), before the first pass of the loop
BlockNew(f) == [fut |-> f, pc |-> "loop", ret |-> None, woke |-> FALSE]

\* a plausible slip: the loop is left after one poll whatever it returned
BlockBreaks_AfterOnePoll(poll) == TRUE

\* block_on: "let Poll::Ready(x) = fut.poll() else { continue; }; break x"
BlockBreaks(poll) == poll.ready

\* Block::poll; the polls of a future that is never Ready are counted up to
\* MaxPolls only
BlockPolled(f) == IF f.need = 0 /\ f.polls >= MaxPolls THEN f ELSE FutPolled(f)

BlockAt(n, v) ==
    blk = [c \in Blockers |-> BlockNew([need |-> n, val |-> v, polls |-> 0])]

BlockIdle == BlockAt(1, "1")

BlockFresh ==
    \E need \in [Blockers -> 0..MaxPolls] : \E val \in [Blockers -> Values] :
        blk = [c \in Blockers |->
                  BlockNew([need |-> need[c], val |-> val[c], polls |-> 0])]

\* one pass of the loop of block_on at call site c
BlockPoll(c) ==
    /\ blk[c].pc = "loop"
    /\ \E woke \in BOOLEAN :
           LET f    == BlockPolled(blk[c].fut)
               poll == FutPoll(f)
           IN  /\ blk' = [blk EXCEPT ![c] =
                             [fut  |-> f,
                              pc   |-> IF BlockBreaks(poll) THEN "returned" ELSE "loop",
                              ret  |-> IF BlockBreaks(poll) THEN poll.value ELSE None,
                              woke |-> woke]]
               /\ scheduled' = IF woke THEN BlockOnWake(scheduled) ELSE scheduled
    /\ UNCHANGED notBlockVars

NextBlock == \E c \in Blockers : BlockPoll(c)

(***************************************************************************)
(* Work::execute, Kind::waker, Kind::schedule and the worker run-loop.     *)
(* A thread is a worker's thread: current_worker() is the worker of the    *)
(* calling thread.  The future of a Fut task is Ready on its need-th poll; *)
(* a poll that returns Pending has handed the wake handle to an event      *)
(* source, which may call wake() from any thread.                          *)
(***************************************************************************)
Workers == 1..NumWorkers
Keys == 1..MaxTasks

\* Option<Work>::None, and a key under which nothing was submitted
NoWork == [key |-> 0, kind |-> "None", act |-> "None"]

\* the unit output of a task's future
Unit == <<>>

\* Box::into_raw(task) and Box::from_raw(ptr): the task is addressed by its key
TaskPtr(task) == task.key
TaskFromPtr(ptr) == heap[ptr]

\* current_worker(): the worker of the thread that calls
CurrentWorker(caller) == caller

\* <Local as Kind>::schedule / <Remote as Kind>::schedule, called on a thread:
\* the task joins the local or the remote queue of that thread's worker
Schedule(ws, caller, task) ==
    IF task.kind = "Local"
    THEN [ws EXCEPT ![CurrentWorker(caller)].local = Append(@, task)]
    ELSE [ws EXCEPT ![CurrentWorker(caller)].remote = Append(@, task)]

\* a wake handle names its Notify: the i-th one minted for key k
Handle(k, i) == <<k, i>>
NoHandle == Handle(0, 0)

\* a plausible slip: the Notify of the key's last suspension is handed out again
KindWaker_Reused(ns, key) ==
    IF ns[key] = <<>> THEN [ns EXCEPT ![key] = Append(@, NotifyNew(key))] ELSE ns

\* a plausible slip: the handle is built without a Notify of its own
KindWaker_NoNotify(ns, key) == ns

\* Kind::waker(key): a new Notify for the key
KindWaker(ns, key) == [ns EXCEPT ![key] = Append(@, NotifyNew(key))]

\* a plausible slip: the closure is read out but never invoked
CallTake_NotInvoked(n) == n

\* execute, Call branch: the closure is read out and invoked
CallTake(n) == n + 1

\* a plausible slip: the arms of the final match the wrong way round
ExecuteReturn_Inverted(poll, work) ==
    IF poll = Pending /\ work.act = "Fut" THEN NoWork ELSE work

\* execute: the final match, Some(self) on (Pending, Fut) and None otherwise
ExecuteReturn(poll, work) ==
    IF poll = Pending /\ work.act = "Fut" THEN work ELSE NoWork

WorkFresh ==
    /\ heap = [k \in Keys |-> NoWork]
    /\ futs = [k \in Keys |-> [need |-> 0, val |-> Unit, polls |-> 0]]
    /\ info = [k \in Keys |-> [origin |-> 0, calls |-> 0, execs |-> 0, resched |-> 0]]
    /\ workers = [w \in Workers |-> [local |-> <<>>, remote |-> <<>>, waker |-> NoHandle]]
    /\ thread = [w \in Workers |-> [pc |-> "idle", ret |-> NoWork]]
    /\ notifies = [k \in Keys |-> <<>>]
    /\ handles = [k \in Keys |-> <<>>]
    /\ staleWakes = FALSE

\* a caller on worker w submits a task of the given kind and payload
Spawn(w, kind, act, n) ==
    /\ \E k \in Keys :
        /\ heap[k] = NoWork
        /\ \A j \in Keys : j < k => heap[j] # NoWork
        /\ LET task == [key |-> k, kind |-> kind, act |-> act]
           IN  /\ heap' = [heap EXCEPT ![k] = task]
               /\ futs' = [futs EXCEPT ![k].need = n]
               /\ info' = [info EXCEPT ![k].origin = w]
               /\ workers' = Schedule(workers, w, task)
    /\ UNCHANGED <<thread, notifies, handles, staleWakes, notWorkVars>>

\* the task the run-loop of worker w takes next from a queue of its own
NextWork(w, q) == IF q = "local" THEN Head(workers[w].local) ELSE Head(workers[w].remote)

\* the worker's queues once that task is taken
Dequeued(ws, w, q) ==
    IF q = "local"
    THEN [ws EXCEPT ![w].local = Tail(@)]
    ELSE [ws EXCEPT ![w].remote = Tail(@)]

CanRun(w, q) ==
    /\ thread[w].pc = "idle"
    /\ IF q = "local" THEN workers[w].local # <<>> ELSE workers[w].remote # <<>>

\* worker w takes a Call task (of either domain) and calls Work::execute
ExecuteCall(w, q) ==
    /\ CanRun(w, q)
    /\ NextWork(w, q).act = "Call"
    /\ LET work == NextWork(w, q)
           k    == work.key
           ret  == ExecuteReturn(Ready(Unit), work)
       IN  /\ info' = [info EXCEPT ![k].calls = CallTake(@), ![k].execs = @ + 1]
           /\ workers' = Dequeued(workers, w, q)
           /\ thread' = [thread EXCEPT ![w].pc = IF ret = NoWork THEN "idle" ELSE "park",
                                       ![w].ret = ret]
    /\ UNCHANGED <<heap, futs, notifies, handles, staleWakes, notWorkVars>>

\* worker w takes a Fut task (of either domain) and calls Work::execute: the
\* worker's waker slot is set to a new handle, then the future is polled once
ExecuteFut(w, q) ==
    /\ CanRun(w, q)
    /\ NextWork(w, q).act = "Fut"
    /\ LET work == NextWork(w, q)
           k    == work.key
           fut  == FutPolled(futs[k])
           poll == FutPoll(fut)
           ret  == ExecuteReturn(poll, work)
       IN  /\ notifies' = KindWaker(notifies, k)
           /\ workers' = [Dequeued(workers, w, q) EXCEPT
                              ![w].waker = Handle(k, Len(notifies[k]) + 1)]
           /\ handles' = [handles EXCEPT ![k] =
                              Append(@, [armed |-> ~poll.ready, resched |-> 0])]
           /\ futs' = [futs EXCEPT ![k] = fut]
           /\ info' = [info EXCEPT ![k].execs = @ + 1]
           /\ thread' = [thread EXCEPT ![w].pc = IF ret = NoWork THEN "idle" ELSE "park",
                                       ![w].ret = ret]
    /\ UNCHANGED <<heap, staleWakes, notWorkVars>>

\* the run-loop of worker w parks the task execute returned in the Notify of
\* its waker slot: register(task); on false it makes the task runnable itself
Park(w) ==
    /\ thread[w].pc = "park"
    /\ workers[w].waker # NoHandle
    /\ LET id     == workers[w].waker
           task   == thread[w].ret
           stored == RegisterStore(notifies[id[1]][id[2]], TaskPtr(task))
       IN  /\ notifies' = [notifies EXCEPT ![id[1]][id[2]] = RegisterCas(stored)]
           /\ IF RegisterOk(stored)
              THEN UNCHANGED <<workers, info, handles>>
              ELSE /\ workers' = Schedule(workers, w, task)
                   /\ info' = [info EXCEPT ![task.key].resched = @ + 1]
                   /\ handles' = [handles EXCEPT ![id[1]][id[2]].resched = @ + 1]
    /\ thread' = [thread EXCEPT ![w].pc = "idle", ![w].ret = NoWork]
    /\ UNCHANGED <<heap, futs, staleWakes, notWorkVars>>

\* a plausible slip: a handle resolves to the newest Notify of its key
WakerNotify_Newest(ns, k, i) == Len(ns[k])

\* NotifyWaker(Arc<Notify>): the handle wraps the Notify it was minted with,
\* the i-th of the key
WakerNotify(ns, k, i) == i

\* NotifyWaker::wake / wake_by_ref called on the thread of worker w: notify()
\* on the Notify of the handle; a task found there is scheduled from w's thread.
\* A notify() that schedules nothing does the same on every thread: it is
\* taken on the thread of worker 1 only.
Wake(w, k, i) ==
    /\ i \in DOMAIN notifies[k]
    /\ handles[k][i].armed
    /\ LET j     == WakerNotify(notifies, k, i)
           prior == notifies[k][j].state
           ptr   == NotifyLoad(notifies[k][j])
           last  == Len(notifies[k])
       IN  /\ (NotifyTakes(prior) /\ ptr # NULL) \/ w = 1
           /\ notifies' = [notifies EXCEPT ![k][j] = NotifySwap(@)]
           /\ IF NotifyTakes(prior) /\ ptr # NULL
              THEN /\ workers' = Schedule(workers, w, TaskFromPtr(ptr))
                   /\ info' = [info EXCEPT ![ptr].resched = @ + 1]
                   /\ handles' = [handles EXCEPT ![k][j].resched = @ + 1]
              ELSE UNCHANGED <<workers, info, handles>>
           /\ staleWakes' = IF i < last /\ notifies[k][last].state = WAITING
                             THEN ~staleWakes
                             ELSE staleWakes
    /\ UNCHANGED <<heap, futs, thread, notWorkVars>>

NextWorkers ==
    \/ \E w \in Workers, kind \in {"Local", "Remote"} : Spawn(w, kind, "Call", 0)
    \/ \E w \in Workers, kind \in {"Local", "Remote"}, n \in 1..MaxFutPolls :
           Spawn(w, kind, "Fut", n)
    \/ \E w \in Workers, q \in {"local", "remote"} : ExecuteCall(w, q)
    \/ \E w \in Workers, q \in {"local", "remote"} : ExecuteFut(w, q)
    \/ \E w \in Workers : Park(w)
    \/ \E w \in Workers, k \in Keys, i \in 1..MaxFutPolls : Wake(w, k, i)

(***************************************************************************)
(* The specifications.                                                     *)
(***************************************************************************)
JoinIdle == JoinAt(1, "1", 1, "a")

InitNotify == NotifyFresh /\ JoinIdle /\ WorkFresh /\ BlockIdle

SpecNotify == InitNotify /\ [][NextNotify]_vars

InitJoin == JoinFresh /\ NotifyFresh /\ WorkFresh /\ BlockIdle

SpecJoin == InitJoin /\ [][NextJoin]_vars

InitWork == WorkFresh /\ NotifyFresh /\ JoinIdle /\ BlockIdle

SpecWork == InitWork /\ [][NextWorkers]_vars

InitSelect == SelectFresh /\ NotifyFresh /\ WorkFresh /\ BlockIdle

SpecSelect == InitSelect /\ [][NextSelect]_vars

InitBlock == BlockFresh /\ NotifyFresh /\ JoinIdle /\ WorkFresh

\* the loop of block_on is a busy loop on a running thread: it keeps stepping
SpecBlock ==
    InitBlock /\ [][NextBlock]_vars /\ \A c \in Blockers : WF_vars(BlockPoll(c))

(***************************************************************************)
(* Properties of Notify (SpecNotify).                                      *)
(***************************************************************************)
\* r is the only register call made so far
OneRegister(r) ==
    /\ regPc[r] # "idle"
    /\ \A q \in Registers \ {r} : regPc[q] = "idle"

\* every call that began has returned
Quiescent ==
    /\ \A r \in Registers : regPc[r] \in {"idle", "done"}
    /\ \A t \in Notifiers : notPc[t] \in {"idle", "done"}

\* the number of Kind::schedule calls that received the task
HandOffs(task) == Cardinality({i \in DOMAIN scheduled : scheduled[i] = task})

\* 1 when register returned false: the caller runs the task at once
RunnableByCaller(r) == IF regRet[r] = "false" THEN 1 ELSE 0

\* C1: with one register(task) call and one or more notify() calls on a
\* fresh Notify, in any interleaving of the slot store, the compare-exchange,
\* the swap and the slot load, the task is made runnable exactly once: one
\* notify() hands it to Kind::schedule or register returns false, never both,
\* and, once every call has returned, never neither.
C1_ScheduledExactlyOnce ==
    \A r \in Registers :
        OneRegister(r) =>
            /\ HandOffs(TaskOf(r)) + RunnableByCaller(r) <= 1
            /\ Len(scheduled) = HandOffs(TaskOf(r))
            /\ (Quiescent /\ regPc[r] = "done" /\ NotifiesFinished)
                   => HandOffs(TaskOf(r)) + RunnableByCaller(r) = 1

\* one register returned true, two notify calls returned, one hand-off made
C1_Witness ==
    \E r \in Registers :
        /\ OneRegister(r) /\ Quiescent /\ regRet[r] = "true"
        /\ Cardinality({t \in Notifiers : notPc[t] = "done"}) >= 2
        /\ scheduled = <<TaskOf(r)>>

\* the other branch of C1: register lost the race and returned false
C1_WitnessFalse ==
    \E r \in Registers :
        /\ OneRegister(r) /\ Quiescent /\ regRet[r] = "false"
        /\ scheduled = <<>>

\* C2: a notify() call that finds the state NOTIFIED is a no-op: it leaves
\* the cell as it is, never loads the task slot and schedules nothing; so all
\* the notify() calls on one Notify make at most one Kind::schedule call.
C2_NotifyOnNotifiedIsNoOp ==
    /\ [][\A t \in Notifiers :
            (notPc[t] = "idle" /\ notPc'[t] # "idle" /\ cell.state = NOTIFIED)
                => (cell' = cell /\ scheduled' = scheduled /\ notPc'[t] = "done")]_vars
    /\ [](\A t \in Notifiers :
            notPrior[t] = NOTIFIED => (~notRead[t] /\ notPc[t] = "done"))
    /\ [](Len(scheduled) <= 1)

\* a notify() call found NOTIFIED after another one had handed the task over
C2_Witness ==
    /\ \E t \in Notifiers : notPrior[t] = NOTIFIED /\ notPc[t] = "done"
    /\ Len(scheduled) = 1

\* C3: when notify() calls on a fresh Notify have all returned before any
\* register() begins, nothing was scheduled and the state is NOTIFIED; the
\* register(task) that follows returns false, and nothing is scheduled later.
C3_NotifyBeforeRegister ==
    /\ (NotifiesFinished /\ \A r \in Registers : regPc[r] = "idle")
           => (scheduled = <<>> /\ cell.state = NOTIFIED)
    /\ \A r \in Registers :
           regQuiet[r] =>
               /\ scheduled = <<>>
               /\ cell.state = NOTIFIED
               /\ (regPc[r] = "done" => regRet[r] = "false")

\* three notify() calls returned, then a register began and returned false
C3_Witness ==
    \E r \in Registers :
        /\ regQuiet[r] /\ regPc[r] = "done" /\ regRet[r] = "false"
        /\ Cardinality({t \in Notifiers : notPc[t] = "done"}) >= 3
        /\ \A t \in Notifiers : notPc[t] = "done" => notPrior[t] \in {EMPTY, NOTIFIED}

\* C13: the state word of a Notify only moves forward.  It is always one of
\* EMPTY, WAITING, NOTIFIED; it never goes from WAITING or NOTIFIED back to
\* EMPTY nor from NOTIFIED back to WAITING, so each of EMPTY -> WAITING and
\* WAITING -> NOTIFIED happens at most once per instance and NOTIFIED is
\* terminal.
C13_StateMovesForward ==
    /\ [](cell.state \in {EMPTY, WAITING, NOTIFIED})
    /\ [][/\ cell.state = WAITING => cell'.state \in {WAITING, NOTIFIED}
          /\ cell.state = NOTIFIED => cell'.state = NOTIFIED]_vars

\* the cell went EMPTY -> WAITING -> NOTIFIED, and a register and a notify
\* call were made on it after it had reached NOTIFIED
C13_Witness ==
    /\ cell.state = NOTIFIED
    /\ \E r \in Registers : regFound[r] = EMPTY
    /\ \E t \in Notifiers : notPrior[t] = WAITING
    /\ \E r \in Registers : regFound[r] = NOTIFIED
    /\ \E t \in Notifiers : notPrior[t] = NOTIFIED

\* C14: when register() is called twice on one Notify, with two tasks, the
\* hand-off is not corrupted in any interleaving with notify(): no task is
\* scheduled more than once, the task that notify() hands to Kind::schedule is
\* the task whose register() returned true, and a task whose register()
\* returned false is never also scheduled by notify().
C14_DoubleRegisterKeepsHandOff ==
    \A r \in Registers :
        /\ HandOffs(TaskOf(r)) <= 1
        /\ HandOffs(TaskOf(r)) > 0 => regRet[r] = "true"
        /\ regRet[r] = "false" => HandOffs(TaskOf(r)) = 0

\* C19: with at most one register() call on a Notify, a WAITING state word
\* implies that the slot holds the registered task (it is not null); so every
\* notify() that observes WAITING retrieves that task, the null check never
\* fails, and the task is withdrawn at most once.
C19_WaitingSlotHoldsTask ==
    /\ (\A q \in Registers : regPc[q] = "idle") =>
           (cell.state # WAITING /\ scheduled = <<>>)
    /\ \A r \in Registers :
           OneRegister(r) =>
               /\ cell.state = WAITING => (cell.task = TaskOf(r) /\ cell.task # NULL)
               /\ \A t \in Notifiers :
                      /\ notPrior[t] = WAITING => NotifyLoad(cell) = TaskOf(r)
                      /\ notRead[t] => scheduled = <<TaskOf(r)>>
               /\ Cardinality({t \in Notifiers : notRead[t]}) <= 1
               /\ Len(scheduled) <= 1

\* the one registered task was parked (WAITING) and a notify has swapped the
\* state and is about to load the slot
C19_Witness ==
    \E r \in Registers : \E t \in Notifiers :
        /\ OneRegister(r)
        /\ regFound[r] = EMPTY
        /\ notPrior[t] = WAITING
        /\ notPc[t] = "load"
        /\ scheduled = <<>>

\* C20: a register(task) call that returns false leaves the state word as it
\* found it (NOTIFIED, or WAITING after an earlier successful register) but
\* has written its task into the slot; after a register that found NOTIFIED
\* that task stays in the slot, and no later notify() on the instance
\* withdraws it or passes it to Kind::schedule.
C20_FalseRegisterLeavesTask ==
    /\ [][\A r \in Registers :
            (regPc[r] = "cas" /\ regRet'[r] = "false") =>
                (cell'.state = cell.state /\ cell.state \in {WAITING, NOTIFIED})]_vars
    /\ [](\A r \in Registers : regFound[r] = NOTIFIED => cell.task = TaskOf(r))
    /\ [][\A r \in Registers :
            (regFound[r] = NOTIFIED /\ Len(scheduled') > Len(scheduled)) =>
                scheduled'[Len(scheduled')] # TaskOf(r)]_vars

(***************************************************************************)
(* Properties of Join (SpecJoin).                                          *)
(***************************************************************************)
\* the side has returned Ready to some poll of it
SideCompleted(f) == f.polls >= f.need

\* the outer poll in which the later of the two sides completes
LaterCompletion == IF futA.need >= futB.need THEN futA.need ELSE futB.need

\* the sides that have not completed, first before second
SidesToPoll ==
    (IF ~SideCompleted(futA) THEN <<"first">> ELSE <<>>)
        \o (IF ~SideCompleted(futB) THEN <<"second">> ELSE <<>>)

\* C8: when Join is Ready its output is the pair (A's result, B's result),
\* A's in the first position and B's in the second, whichever side completed
\* first.
C8_JoinYieldsPair ==
    out.ready => out.value = <<futA.val, futB.val>>

\* Join is Ready, B completed before A, and the two results differ
C8_Witness ==
    /\ out.ready
    /\ futB.need < futA.need
    /\ futA.val # futB.val

\* C9: every outer poll of Join polls each side that has not completed exactly
\* once, the first side before the second, and polls no completed side: a side
\* is never polled after the poll in which it returned Ready.
C9_JoinPollsEachPendingSideOnce ==
    /\ [][outer' # outer =>
            /\ order' = SidesToPoll
            /\ futA'.polls = futA.polls + (IF SideCompleted(futA) THEN 0 ELSE 1)
            /\ futB'.polls = futB.polls + (IF SideCompleted(futB) THEN 0 ELSE 1)]_vars
    /\ [](futA.polls <= futA.need /\ futB.polls <= futB.need)

\* an outer poll polled only the second side: the first had completed earlier
C9_Witness ==
    /\ outer >= 2
    /\ order = <<"second">>
    /\ futA.polls = futA.need
    /\ futA.need < outer

\* C10: Join returns Pending on every outer poll before both sides have
\* completed and Ready on the outer poll in which the later side completes:
\* with A needing a polls and B needing b, on outer poll max(a, b).
C10_JoinReadyAtLaterCompletion ==
    /\ outer < LaterCompletion => (~out.ready /\ ~panicked)
    /\ outer = LaterCompletion => (out.ready /\ ~panicked)

\* an immediately-ready side joined with a two-poll side: Ready on poll 2
C10_Witness ==
    /\ futA.need = 1 /\ futB.need = 2
    /\ outer = 2
    /\ out = Ready(<<"1", "a">>)

(***************************************************************************)
(* Properties of Select (SpecSelect).                                      *)
(***************************************************************************)
\* C11: Select(A, B) is left-biased.  In an outer poll in which A's poll
\* returns Ready the result is First(A's result) and B is not polled in that
\* outer poll, even if B would also be ready; the result is Second(B's
\* result) only in an outer poll in which A returned Pending and B returned
\* Ready.  If A completes on its first poll, B receives at most one poll.
C11_SelectLeftBiased ==
    /\ [][outer' # outer =>
            /\ (futA'.polls > futA.polls /\ FutPoll(futA').ready) =>
                   /\ out' = Ready(<<"First", futA.val>>)
                   /\ futB' = futB
                   /\ order' = <<"first">>
            /\ (out'.ready /\ out'.value[1] = "Second") =>
                   /\ futA'.polls = futA.polls + 1 /\ ~FutPoll(futA').ready
                   /\ futB'.polls = futB.polls + 1 /\ FutPoll(futB').ready
                   /\ out'.value = <<"Second", futB.val>>]_vars
    /\ [](futA.need = 1 => futB.polls <= 1)

\* the second outer poll returned First although B's next poll would have
\* been Ready too; B was not polled in it
C11_Witness ==
    /\ outer = 2
    /\ out = Ready(<<"First", futA.val>>)
    /\ order = <<"first">>
    /\ futB.polls = 1
    /\ FutPoll(FutPolled(futB)).ready
    /\ futA.val # futB.val

\* C18: every outer poll of Select that returns Pending has polled both sides
\* exactly once each, first then second, and leaves both polled flags false;
\* so both flags are false at the start of every outer poll, and the next
\* outer poll polls first again and, if first is still Pending, second again.
C18_SelectRepollsBothSides ==
    /\ [](~out.ready => select = [polled_first |-> FALSE, polled_second |-> FALSE])
    /\ [][outer' # outer =>
            /\ futA'.polls = futA.polls + 1
            /\ ~FutPoll(futA').ready => futB'.polls = futB.polls + 1
            /\ ~out'.ready =>
                   /\ order' = <<"first", "second">>
                   /\ futB'.polls = futB.polls + 1
                   /\ ~select'.polled_first /\ ~select'.polled_second]_vars

\* two outer polls returned Pending: each side has been polled twice
C18_Witness ==
    /\ outer = 2
    /\ ~out.ready
    /\ futA.polls = 2 /\ futB.polls = 2
    /\ order = <<"first", "second">>
    /\ ~select.polled_first /\ ~select.polled_second

(***************************************************************************)
(* Properties of block_on (SpecBlock).                                     *)
(***************************************************************************)
\* C15: block_on(f) terminates and returns f's output if and only if f
\* returns Ready after finitely many polls, without needing any wake.  It
\* polls f repeatedly against an inert waker (wake does nothing and schedules
\* nothing), returns at the first Ready and never polls f after it; given a
\* future that stays Pending forever it loops forever without returning.
C15_BlockOnSpinsUntilReady ==
    /\ \A c \in Blockers : (blk[c].fut.need > 0) ~> (blk[c].pc = "returned")
    /\ [](\A c \in Blockers :
            blk[c].pc = "returned" =>
                /\ blk[c].fut.need > 0
                /\ blk[c].fut.polls = blk[c].fut.need
                /\ blk[c].ret = blk[c].fut.val)
    /\ [](\A c \in Blockers :
            blk[c].pc = "loop" =>
                (blk[c].fut.need = 0 \/ blk[c].fut.polls < blk[c].fut.need))
    /\ [](\A c \in Blockers : blk[c].fut.need = 0 => blk[c].pc = "loop")
    /\ [](scheduled = <<>>)

\* one call returned its future's output at the second poll, the first poll
\* having called wake; the other call still spins on a future that is never
\* Ready and that called wake at its last poll
C15_Witness ==
    /\ blk["notify"].pc = "returned"
    /\ blk["notify"].fut.need = 2
    /\ blk["notify"].ret = blk["notify"].fut.val
    /\ blk["execute"].fut.need = 0
    /\ blk["execute"].fut.polls >= 2
    /\ blk["execute"].pc = "loop"
    /\ blk["execute"].woke
    /\ scheduled = <<>>

(***************************************************************************)
(* Properties of execute and of the suspend / wake cycle (SpecWork).       *)
(***************************************************************************)
\* this step is an execute on worker w: it took a task from one of w's queues
Executes(w) ==
    Len(workers'[w].local) + Len(workers'[w].remote)
        < Len(workers[w].local) + Len(workers[w].remote)

\* the Work that execute consumed in this step
Executed(w) ==
    IF Len(workers'[w].local) < Len(workers[w].local)
    THEN Head(workers[w].local)
    ELSE Head(workers[w].remote)

\* where the task of key k can be: in a queue, held by a run-loop, parked
InQueues(k) ==
    \E w \in Workers :
        \/ \E i \in DOMAIN workers[w].local : workers[w].local[i].key = k
        \/ \E i \in DOMAIN workers[w].remote : workers[w].remote[i].key = k

Held(k) == \E w \in Workers : thread[w].ret.key = k

ParkedIn(k, i) ==
    /\ i \in DOMAIN notifies[k]
    /\ notifies[k][i].state = WAITING
    /\ notifies[k][i].task = k

Parked(k) == \E i \in DOMAIN notifies[k] : ParkedIn(k, i)

Live(k) == InQueues(k) \/ Held(k) \/ Parked(k)

\* C4: execute on a Call task (Local or Remote) invokes the deferred action
\* exactly once and returns None; it mints no Notify and polls nothing, and
\* the task is never executed again: it is on no queue, held by no run-loop
\* and parked nowhere afterwards.
C4_CallRunsOnceAndIsDone ==
    /\ [][\A w \in Workers :
            (Executes(w) /\ Executed(w).act = "Call") =>
                LET k == Executed(w).key
                IN  /\ info'[k].calls = info[k].calls + 1
                    /\ thread'[w].ret = NoWork
                    /\ thread'[w].pc = "idle"
                    /\ notifies' = notifies
                    /\ futs' = futs]_vars
    /\ [](\A k \in Keys :
            heap[k].act = "Call" =>
                /\ info[k].execs <= 1
                /\ info[k].calls = info[k].execs
                /\ (info[k].execs = 1 => ~Live(k)))

\* a Remote Call task was executed: its action ran once and the task is gone
C4_Witness ==
    \E k \in Keys :
        /\ heap[k].kind = "Remote" /\ heap[k].act = "Call"
        /\ info[k].execs = 1 /\ info[k].calls = 1
        /\ ~Live(k)

\* C5: execute on a Fut task polls the future exactly once; it returns None
\* when that poll is Ready and Some of the very task it was given (same key,
\* same domain, same future) when that poll is Pending.
C5_FutPolledOnce ==
    [][\A w \in Workers :
          (Executes(w) /\ Executed(w).act = "Fut") =>
              LET k == Executed(w).key
              IN  /\ futs'[k].polls = futs[k].polls + 1
                  /\ futs'[k].need = futs[k].need
                  /\ info'[k].calls = info[k].calls
                  /\ IF futs'[k].polls >= futs[k].need
                     THEN thread'[w].ret = NoWork
                     ELSE thread'[w].ret = Executed(w)]_vars

\* an execute whose poll was Pending returned the task to the run-loop
C5_Witness ==
    \E w \in Workers :
        /\ thread[w].ret # NoWork
        /\ thread[w].ret.act = "Fut"
        /\ thread[w].ret = heap[thread[w].ret.key]
        /\ futs[thread[w].ret.key].polls = 1

\* the other branch of C5: the poll was Ready and execute returned None
C5_WitnessReady ==
    \E k \in Keys :
        /\ heap[k].act = "Fut"
        /\ futs[k].polls = futs[k].need /\ futs[k].need = 1
        /\ ~Live(k)

\* C6: a Local task is only ever on the local queue of the worker on which
\* it originated, whichever thread called notify().
C6_LocalStaysOnOrigin ==
    \A w \in Workers :
        /\ \A i \in DOMAIN workers[w].local :
               workers[w].local[i].kind = "Local"
                   => info[workers[w].local[i].key].origin = w
        /\ \A i \in DOMAIN workers[w].remote :
               workers[w].remote[i].kind # "Local"

\* C7: a Fut task that needs n polls is executed n times and rescheduled
\* n - 1 times: an execute whose poll is Pending returns the task, which is
\* parked in the Notify minted by that execute; that Notify reschedules it
\* once (by notify(), or by register returning false), never twice, however
\* often it is notified; the n-th execute returns None and the task is gone.
C7_SuspendWakeCycle ==
    \A k \in Keys :
        heap[k].act = "Fut" =>
            /\ info[k].execs = futs[k].polls
            /\ info[k].execs <= futs[k].need
            /\ Len(notifies[k]) = info[k].execs
            /\ info[k].resched <= info[k].execs
            /\ info[k].execs <= info[k].resched + 1
            /\ (info[k].execs = futs[k].need =>
                    /\ info[k].resched = futs[k].need - 1
                    /\ ~Live(k))
            /\ (info[k].execs < futs[k].need => Live(k))
            /\ \A i \in DOMAIN notifies[k] :
                   /\ handles[k][i].resched <= 1
                   /\ notifies[k][i].task \in {NULL, k}
                   /\ (notifies[k][i].state = NOTIFIED /\ notifies[k][i].task # NULL)
                          => handles[k][i].resched = 1
                   /\ ParkedIn(k, i) => (i = info[k].execs /\ handles[k][i].resched = 0)

\* a Local Fut task needing two polls: parked in its first Notify, notified
\* once, rescheduled once, executed a second time and done
C7_Witness ==
    \E k \in Keys :
        /\ heap[k].kind = "Local" /\ heap[k].act = "Fut"
        /\ futs[k].need = 2 /\ info[k].execs = 2
        /\ info[k].resched = 1
        /\ notifies[k][1].state = NOTIFIED /\ notifies[k][1].task = k
        /\ ~Live(k)

\* C16: execute on a Fut payload first sets the waker slot of the current
\* worker to a freshly minted handle (a new Notify, EMPTY, bound to the key of
\* the task) and only then polls the future, against that handle; execute
\* never calls Kind::schedule nor enqueues the task, whether the poll returns
\* Ready or Pending.
C16_ExecuteMintsHandleThenPolls ==
    [][\A w \in Workers :
          (Executes(w) /\ Executed(w).act = "Fut") =>
              LET k == Executed(w).key
                  n == Len(notifies[k]) + 1
              IN  /\ Len(notifies'[k]) = n
                  /\ SubSeq(notifies'[k], 1, n - 1) = notifies[k]
                  /\ notifies'[k][n] = [key |-> k, task |-> NULL, state |-> EMPTY]
                  /\ workers'[w].waker = Handle(k, n)
                  /\ futs'[k].polls = futs[k].polls + 1
                  /\ Len(handles'[k]) = n
                  /\ handles'[k][n].armed = ~FutPoll(futs'[k]).ready
                  /\ info'[k].resched = info[k].resched
                  /\ \A v \in Workers :
                         /\ Len(workers'[v].local) <= Len(workers[v].local)
                         /\ Len(workers'[v].remote) <= Len(workers[v].remote)]_vars

\* a task was executed a second time and its poll returned Pending: the waker
\* slot names the second Notify of the key, EMPTY, and the task is in no queue
C16_Witness ==
    \E w \in Workers : \E k \in Keys :
        /\ thread[w].pc = "park"
        /\ thread[w].ret.key = k
        /\ workers[w].waker = Handle(k, 2)
        /\ notifies[k][2].state = EMPTY
        /\ futs[k].polls = 2
        /\ ~InQueues(k)

\* C17 as stated: a Notify is created exactly when the poll of a Fut task
\* returns not-done; an execution attempt allocates a new Notify if and only
\* if it polls a Fut payload and that poll returns Pending, and executing a
\* Call task, or a Fut task whose poll returns Ready, allocates no Notify.
C17_NotifyOnlyOnPending ==
    [][\A w \in Workers :
          Executes(w) =>
              LET k == Executed(w).key
              IN  (Len(notifies'[k]) > Len(notifies[k]))
                      <=> (Executed(w).act = "Fut" /\ ~FutPoll(futs'[k]).ready)]_vars

\* C17, amended: a Notify is created exactly when a Fut task is executed; an
\* execution attempt allocates one new Notify if and only if it polls a Fut
\* payload, whether that poll returns Pending or Ready; executing a Call task
\* allocates no Notify, and no other step allocates one.
C17_NotifyOnEveryFutExecute ==
    /\ [][\A w \in Workers :
            Executes(w) =>
                LET k == Executed(w).key
                IN  Len(notifies'[k]) = Len(notifies[k])
                        + (IF Executed(w).act = "Fut" THEN 1 ELSE 0)]_vars
    /\ [][(\E k \in Keys : Len(notifies'[k]) # Len(notifies[k]))
              => \E w \in Workers : Executes(w)]_vars
    /\ [](\A k \in Keys : Len(notifies[k]) = futs[k].polls)

\* a Fut task completed at its first poll, and a Notify was minted for it
C17_Witness ==
    \E k \in Keys :
        /\ heap[k].act = "Fut"
        /\ futs[k].need = 1 /\ futs[k].polls = 1
        /\ Len(notifies[k]) = 1
        /\ notifies[k][1].state = EMPTY
        /\ \A w \in Workers : thread[w].pc = "idle"

\* C12: a wake through a stale handle is a no-op.  After a task has been
\* woken through the Notify of one suspension, has resumed and has suspended
\* again on a new Notify, a later wake on the handle of the earlier suspension
\* calls Kind::schedule zero times and does not change the state of the newer
\* Notify: no queue, no reschedule count and no Notify changes in that step.
C12_StaleWakeIsNoOp ==
    /\ [][staleWakes' # staleWakes =>
            /\ notifies' = notifies
            /\ workers' = workers
            /\ info' = info
            /\ handles' = handles
            /\ thread' = thread]_vars
    /\ [](\A k \in Keys : \A i \in DOMAIN notifies[k] :
            i < Len(notifies[k]) =>
                (notifies[k][i].state = NOTIFIED /\ handles[k][i].resched = 1))

\* the handle of the first suspension was invoked while the task was parked
\* in the Notify of its second suspension, where it still waits
C12_Witness ==
    \E k \in Keys :
        /\ staleWakes
        /\ Len(notifies[k]) = 2
        /\ handles[k][1].armed /\ handles[k][1].resched = 1
        /\ ParkedIn(k, 2)
        /\ ~InQueues(k)
        /\ info[k].resched = 1

====
